---- MODULE Spec2Model ----
(***************************************************************************)
(* Model of src/main.py: the branch monitor loop (monitor_repo) with the   *)
(* adapters it calls.  The program is single-threaded; one action is one   *)
(* step of the loop body around one blocking external call, sequenced by   *)
(* the program counter pc.  The answers of the outside world (git, the     *)
(* test script, the webhook) are inputs drawn with \E.  sent, test_result, *)
(* verdict, passed and last_success record what the program did; the       *)
(* program never reads them.                                               *)
(***************************************************************************)
EXTENDS Integers, Sequences, FiniteSets, TLC

\* ------------------------------------------------------------------ bounds
NumRevs == 2
MaxBranches == 2
MaxSelectorLen == 4

\* ------------------------------------------------------------ value spaces
None == "None"
\* default of get_commit_log's second parameter (commit_hash_end=0)
NoEnd == "0"

RevNames == <<"aaa", "bbb", "ccc", "ddd">>
Revs == {RevNames[i] : i \in 1..NumRevs}

BranchNames == {"main", "dev"}
\* branch names are interchangeable: the first one given is called "main"
BranchLists == {l \in UNION {[1..n -> BranchNames] : n \in 1..MaxBranches} :
                    l[1] = "main"}

\* returncode of the test script: zero, or not
ExitCodes == {0, 1}
\* what subprocess.run([test_script]) can do: return a code, or raise
NotRun == << >>
Returned(rc) == <<"returned", rc>>
FileNotFoundError == <<"FileNotFoundError">>
PermissionError == <<"PermissionError">>
HasReturned(r) == Len(r) = 2
ReturnCode(r) == r[2]

\* args.branch when --branch is not given
NoBranch == << >>

\* refs/heads/<b>, origin/<b>, <b>
Candidates == 1..3
\* no git rev-parse --verify has been asked
NoAnswers == << >>

\* the characters of a --branch value: two letters, the comma, the blank
Chars == {"m", "d", ",", " "}
Whitespace == {" "}
\* the values of --branch that take the elif at line 193: not empty
Selectors == UNION {[1..n -> Chars] : n \in 1..MaxSelectorLen}

Range(s) == {s[i] : i \in 1..Len(s)}

\* Python truthiness of an optional string
Truthy(x) == x \notin {None, ""}

VARIABLES
    args,                   \* parsed configuration: branch selector, sync command
    pc,                     \* position in monitor_repo
    branches,               \* list of monitored branches
    idx,                    \* position of the for loop in branches
    branch,                 \* loop variable of the for loop
    current_commit,         \* local of the loop body
    last_commit,            \* dict branch -> last seen revision
    last_test_pass_commit,  \* dict branch -> last revision that passed
    sent,                   \* webhook posts attempted in this pass of the loop body
    test_result,            \* what subprocess.run([test_script]) did in this pass
    verdict,                \* which way this pass of the loop body went
    passed,                 \* pairs <<branch, revision>> whose test run returned 0
    last_success,           \* per branch, revision of the latest run that returned 0
    rev_parse               \* answers of git rev-parse --verify to the three candidates

vars == <<args, pc, branches, idx, branch, current_commit, last_commit,
          last_test_pass_commit, sent, test_result, verdict, passed,
          last_success, rev_parse>>

\* ---------------------------------------------------------------- adapters

\* get_commit_log(commit_hash_begin, commit_hash_end=0); ok: git log exited 0
get_commit_log(commit_hash_begin, commit_hash_end, ok) ==
    IF ok
    THEN IF commit_hash_end # NoEnd
         THEN [type |-> "range", begin |-> commit_hash_begin, end |-> commit_hash_end]
         ELSE [type |-> "single", begin |-> commit_hash_begin, end |-> NoEnd]
    ELSE [type |-> "error", begin |-> commit_hash_begin, end |-> commit_hash_end]

\* mutant: a failed POST is sent a second time
send_webhook_message_Retry(outbox, payload, delivered) ==
    LET post(d) == [title |-> payload.title, branch |-> payload.branch,
                    content |-> payload.content, delivered |-> d]
    IN  IF delivered THEN Append(outbox, post(TRUE))
        ELSE Append(Append(outbox, post(FALSE)), post(TRUE))

\* send_webhook_message: one POST, its result (delivered) is returned and dropped
send_webhook_message(outbox, payload, delivered) ==
    Append(outbox, [title |-> payload.title, branch |-> payload.branch,
                    content |-> payload.content, delivered |-> delivered])

\* mutant: a failing git log keeps the Begin from being posted
on_test_begin_DropOnLogError(outbox, b, commit_hash, ok, delivered) ==
    IF ok
    THEN send_webhook_message(outbox,
            [title |-> "Begin", branch |-> b,
             content |-> get_commit_log(commit_hash, NoEnd, ok)], delivered)
    ELSE outbox

on_test_begin(outbox, b, commit_hash, ok, delivered) ==
    send_webhook_message(outbox,
        [title |-> "Begin", branch |-> b,
         content |-> get_commit_log(commit_hash, NoEnd, ok)], delivered)

on_test_success(outbox, b, commit_hash, ok, delivered) ==
    send_webhook_message(outbox,
        [title |-> "Success", branch |-> b,
         content |-> get_commit_log(commit_hash, NoEnd, ok)], delivered)

\* mutant: the range from the last passing revision is never taken
on_test_failure_SingleOnly(outbox, b, commit_hash, last_pass, ok1, ok2, delivered) ==
    send_webhook_message(outbox,
        [title |-> "Failure", branch |-> b,
         content |-> get_commit_log(commit_hash, NoEnd, ok1)], delivered)

\* mutant: the range is taken also when no revision has passed yet
on_test_failure_RangeAlways(outbox, b, commit_hash, last_pass, ok1, ok2, delivered) ==
    send_webhook_message(outbox,
        [title |-> "Failure", branch |-> b,
         content |-> get_commit_log(last_pass, commit_hash, ok2)], delivered)

on_test_failure(outbox, b, commit_hash, last_pass, ok1, ok2, delivered) ==
    LET first == get_commit_log(commit_hash, NoEnd, ok1)
        commit_log == IF Truthy(last_pass)
                      THEN get_commit_log(last_pass, commit_hash, ok2)
                      ELSE first
    IN  send_webhook_message(outbox,
            [title |-> "Failure", branch |-> b, content |-> commit_log], delivered)

\* get_branch_commit_hash: res[i] is what rev-parse --verify gave for candidate i
\* (None: CalledProcessError)
RECURSIVE FirstResolved(_, _)
FirstResolved(res, i) ==
    IF i > 3 THEN None
    ELSE IF res[i] # None THEN res[i]
    ELSE FirstResolved(res, i + 1)

\* mutant: the bare name is tried first and the local ref last
get_branch_commit_hash_BareFirst(res) ==
    IF res[3] # None THEN res[3]
    ELSE IF res[2] # None THEN res[2]
    ELSE res[1]

get_branch_commit_hash(res) == FirstResolved(res, 1)

\* str.split(","): the pieces between the commas, empty ones included
RECURSIVE split(_)
split(s) ==
    IF \A i \in 1..Len(s) : s[i] # ","
    THEN <<s>>
    ELSE LET k == CHOOSE i \in 1..Len(s) :
                    s[i] = "," /\ \A j \in 1..(i - 1) : s[j] # ","
         IN  <<SubSeq(s, 1, k - 1)>> \o split(SubSeq(s, k + 1, Len(s)))

\* str.strip(): leading and trailing whitespace removed
RECURSIVE strip(_)
strip(s) ==
    IF s = << >> THEN s
    ELSE IF s[1] \in Whitespace THEN strip(Tail(s))
    ELSE IF s[Len(s)] \in Whitespace THEN strip(SubSeq(s, 1, Len(s) - 1))
    ELSE s

\* line 194: [b.strip() for b in args.branch.split(",") if b.strip()]
RECURSIVE stripped_nonempty(_)
stripped_nonempty(pieces) ==
    IF pieces = << >> THEN << >>
    ELSE IF strip(Head(pieces)) # << >>
         THEN <<strip(Head(pieces))>> \o stripped_nonempty(Tail(pieces))
         ELSE stripped_nonempty(Tail(pieces))

branch_list(selector) == stripped_nonempty(split(selector))

\* ------------------------------------------------------------------- state

Init ==
    /\ args \in [branch : BranchLists \cup {NoBranch}, sync_command : BOOLEAN]
    /\ pc = "start"
    /\ branches = << >>
    /\ idx = 0
    /\ branch = None
    /\ current_commit = None
    /\ last_commit = << >>
    /\ last_test_pass_commit = << >>
    /\ sent = << >>
    /\ test_result = NotRun
    /\ verdict = "none"
    /\ passed = {}
    /\ last_success = << >>
    /\ rev_parse = NoAnswers

Trackers(bs) == [b \in Range(bs) |-> None]

\* lines 190-213 with a branch selector given
StartSelected ==
    /\ pc = "start"
    /\ args.branch # NoBranch
    /\ branches' = args.branch
    /\ last_commit' = Trackers(branches')
    /\ last_test_pass_commit' = Trackers(branches')
    /\ last_success' = Trackers(branches')
    /\ pc' = "for"
    /\ UNCHANGED <<rev_parse, args, idx, branch, current_commit, sent, test_result,
                   verdict, passed>>

\* lines 195-204: no selector, git names the checked-out branch
StartCurrent ==
    /\ pc = "start"
    /\ args.branch = NoBranch
    /\ \E cur \in BranchNames :
        /\ branches' = <<cur>>
        /\ last_commit' = Trackers(branches')
        /\ last_test_pass_commit' = Trackers(branches')
        /\ last_success' = Trackers(branches')
    /\ pc' = "for"
    /\ UNCHANGED <<rev_parse, args, idx, branch, current_commit, sent, test_result,
                   verdict, passed>>

\* mutant: the failure is logged and the monitor goes on with a default branch
StartFailed_Fallback ==
    /\ pc = "start"
    /\ args.branch = NoBranch
    /\ verdict' = "no_branch"
    /\ branches' = <<"main">>
    /\ last_commit' = Trackers(branches')
    /\ last_test_pass_commit' = Trackers(branches')
    /\ last_success' = Trackers(branches')
    /\ pc' = "for"
    /\ UNCHANGED <<rev_parse, args, idx, branch, current_commit, sent, test_result, passed>>

\* lines 205-207: git cannot name the current branch, monitor_repo returns False
StartFailed ==
    /\ pc = "start"
    /\ args.branch = NoBranch
    /\ verdict' = "no_branch"
    /\ pc' = "returned"
    /\ UNCHANGED <<rev_parse, args, branches, idx, branch, current_commit, last_commit,
                   last_test_pass_commit, sent, test_result,
                   passed, last_success>>

\* line 216: the for loop takes the next branch and enters the loop body
ForBranch ==
    /\ pc = "for"
    /\ idx < Len(branches)
    /\ idx' = idx + 1
    /\ branch' = branches[idx + 1]
    /\ current_commit' = None
    /\ sent' = << >>
    /\ test_result' = NotRun
    /\ verdict' = "none"
    /\ pc' = "checkout"
    /\ UNCHANGED <<rev_parse, args, branches, last_commit, last_test_pass_commit, passed,
                   last_success>>

\* line 216 exhausted, line 253
ForDone ==
    /\ pc = "for"
    /\ idx >= Len(branches)
    /\ sent' = << >>
    /\ test_result' = NotRun
    /\ verdict' = "none"
    /\ pc' = "sleep"
    /\ UNCHANGED <<rev_parse, args, branches, idx, branch, current_commit, last_commit,
                   last_test_pass_commit, passed, last_success>>

\* line 253 returns, line 215 starts the next iteration
Sleep ==
    /\ pc = "sleep"
    /\ idx' = 0
    /\ pc' = "for"
    /\ UNCHANGED <<rev_parse, args, branches, branch, current_commit, last_commit,
                   last_test_pass_commit, sent, test_result, verdict,
                   passed, last_success>>

body_frame == <<rev_parse, args, branches, idx, branch, passed, last_success>>

\* lines 218, 54-58, 223
CheckoutOk ==
    /\ pc = "checkout"
    /\ pc' = IF args.sync_command THEN "sync" ELSE "resolve"
    /\ UNCHANGED <<body_frame, current_commit, last_commit,
                   last_test_pass_commit, sent, test_result, verdict>>

\* mutant: a failed checkout leaves the for loop instead of continuing it
CheckoutFailed_Break ==
    /\ pc = "checkout"
    /\ verdict' = "checkout_failed"
    /\ pc' = "sleep"
    /\ UNCHANGED <<body_frame, current_commit, last_commit,
                   last_test_pass_commit, sent, test_result>>

\* lines 218-220, 59-61
CheckoutFailed ==
    /\ pc = "checkout"
    /\ verdict' = "checkout_failed"
    /\ pc' = "for"
    /\ UNCHANGED <<body_frame, current_commit, last_commit,
                   last_test_pass_commit, sent, test_result>>

\* lines 223-225
SyncOk ==
    /\ pc = "sync"
    /\ pc' = "resolve"
    /\ UNCHANGED <<body_frame, current_commit, last_commit,
                   last_test_pass_commit, sent, test_result, verdict>>

\* mutant: the continue after a failed sync is missing
SyncFailed_NoContinue ==
    /\ pc = "sync"
    /\ verdict' = "sync_failed"
    /\ pc' = "resolve"
    /\ UNCHANGED <<body_frame, current_commit, last_commit,
                   last_test_pass_commit, sent, test_result>>

\* lines 226-228
SyncFailed ==
    /\ pc = "sync"
    /\ verdict' = "sync_failed"
    /\ pc' = "for"
    /\ UNCHANGED <<body_frame, current_commit, last_commit,
                   last_test_pass_commit, sent, test_result>>

\* lines 231-236
Resolve ==
    /\ pc = "resolve"
    /\ \E res \in [Candidates -> Revs \cup {None}] :
        /\ current_commit' = get_branch_commit_hash(res)
        /\ IF ~Truthy(current_commit')
           THEN verdict' = "unresolved" /\ pc' = "for"
           ELSE verdict' = verdict /\ pc' = "check"
    /\ UNCHANGED <<body_frame, last_commit, last_test_pass_commit, sent,
                   test_result>>

\* mutant: the change is detected against the last passing revision
NewCommit_VsPass(b) == current_commit # last_test_pass_commit[b]

\* mutant: the first observation of a branch only records a baseline
NewCommit_SkipFirst(b) ==
    last_commit[b] # None /\ current_commit # last_commit[b]

\* line 239
NewCommit(b) == current_commit # last_commit[b]

\* line 239 false: nothing to do for this branch
CheckUnchanged ==
    /\ pc = "check"
    /\ ~NewCommit(branch)
    /\ verdict' = "unchanged"
    /\ pc' = "for"
    /\ UNCHANGED <<body_frame, current_commit, last_commit,
                   last_test_pass_commit, sent, test_result>>

\* lines 239-241, 148-154
Begin ==
    /\ pc = "check"
    /\ NewCommit(branch)
    /\ \E ok \in BOOLEAN, delivered \in BOOLEAN :
        sent' = on_test_begin(sent, branch, current_commit, ok, delivered)
    /\ verdict' = "new_commit"
    /\ pc' = "run_tests"
    /\ UNCHANGED <<body_frame, current_commit, last_commit,
                   last_test_pass_commit, test_result>>

\* line 243: run_tests(args.test_script) == 0
TestsPassed(rc) == rc = 0

\* lines 243, 99-103: the test script ran and returned
RunTestsReturn ==
    /\ pc = "run_tests"
    /\ \E rc \in ExitCodes :
        /\ test_result' = Returned(rc)
        /\ IF TestsPassed(rc)
           THEN /\ passed' = passed \cup {<<branch, current_commit>>}
                /\ last_success' = [last_success EXCEPT ![branch] = current_commit]
                /\ pc' = "success"
           ELSE /\ UNCHANGED <<passed, last_success>>
                /\ pc' = "failure"
    /\ UNCHANGED <<rev_parse, args, branches, idx, branch, current_commit, last_commit,
                   last_test_pass_commit, sent, verdict>>

\* mutant: a missing test script is handled like CalledProcessError, return 1
RunTestsNotFound_Returns1 ==
    /\ pc = "run_tests"
    /\ test_result' = FileNotFoundError
    /\ pc' = "failure"
    /\ UNCHANGED <<body_frame, current_commit, last_commit,
                   last_test_pass_commit, sent, verdict>>

\* lines 107-109: exit(1)
RunTestsNotFound ==
    /\ pc = "run_tests"
    /\ test_result' = FileNotFoundError
    /\ pc' = "exited"
    /\ UNCHANGED <<body_frame, current_commit, last_commit,
                   last_test_pass_commit, sent, verdict>>

\* line 102: an OSError other than FileNotFoundError is caught nowhere
RunTestsCrash ==
    /\ pc = "run_tests"
    /\ test_result' = PermissionError
    /\ pc' = "crashed"
    /\ UNCHANGED <<body_frame, current_commit, last_commit,
                   last_test_pass_commit, sent, verdict>>

\* mutant: one passing revision is kept for all branches
Success_SharedPass ==
    /\ pc = "success"
    /\ \E ok \in BOOLEAN, delivered \in BOOLEAN :
        sent' = on_test_success(sent, branch, current_commit, ok, delivered)
    /\ last_test_pass_commit' =
           [b \in DOMAIN last_test_pass_commit |-> current_commit]
    /\ last_commit' = [last_commit EXCEPT ![branch] = current_commit]
    /\ verdict' = "passed"
    /\ pc' = "for"
    /\ UNCHANGED <<body_frame, current_commit, test_result>>

\* lines 244-245, 251
Success ==
    /\ pc = "success"
    /\ \E ok \in BOOLEAN, delivered \in BOOLEAN :
        sent' = on_test_success(sent, branch, current_commit, ok, delivered)
    /\ last_test_pass_commit' =
           [last_test_pass_commit EXCEPT ![branch] = current_commit]
    /\ last_commit' = [last_commit EXCEPT ![branch] = current_commit]
    /\ verdict' = "passed"
    /\ pc' = "for"
    /\ UNCHANGED <<body_frame, current_commit, test_result>>

\* mutant: last_commit is recorded only when the tests pass
Failure_NoUpdate ==
    /\ pc = "failure"
    /\ \E ok1 \in BOOLEAN, ok2 \in BOOLEAN, delivered \in BOOLEAN :
        sent' = on_test_failure(sent, branch, current_commit,
                                last_test_pass_commit[branch], ok1, ok2, delivered)
    /\ UNCHANGED last_commit
    /\ verdict' = "failed"
    /\ pc' = "for"
    /\ UNCHANGED <<body_frame, current_commit, last_test_pass_commit, test_result>>

\* mutant: the failing revision is recorded as passing
Failure_SetsPass ==
    /\ pc = "failure"
    /\ \E ok1 \in BOOLEAN, ok2 \in BOOLEAN, delivered \in BOOLEAN :
        sent' = on_test_failure(sent, branch, current_commit,
                                last_test_pass_commit[branch], ok1, ok2, delivered)
    /\ last_commit' = [last_commit EXCEPT ![branch] = current_commit]
    /\ last_test_pass_commit' =
           [last_test_pass_commit EXCEPT ![branch] = current_commit]
    /\ verdict' = "failed"
    /\ pc' = "for"
    /\ UNCHANGED <<body_frame, current_commit, test_result>>

\* mutant: a failure forgets the last passing revision
Failure_ClearsPass ==
    /\ pc = "failure"
    /\ \E ok1 \in BOOLEAN, ok2 \in BOOLEAN, delivered \in BOOLEAN :
        sent' = on_test_failure(sent, branch, current_commit,
                                last_test_pass_commit[branch], ok1, ok2, delivered)
    /\ last_commit' = [last_commit EXCEPT ![branch] = current_commit]
    /\ last_test_pass_commit' = [last_test_pass_commit EXCEPT ![branch] = None]
    /\ verdict' = "failed"
    /\ pc' = "for"
    /\ UNCHANGED <<body_frame, current_commit, test_result>>

\* mutant: the failure is reported for the first branch of the list
Failure_WrongBranch ==
    /\ pc = "failure"
    /\ \E ok1 \in BOOLEAN, ok2 \in BOOLEAN, delivered \in BOOLEAN :
        sent' = on_test_failure(sent, branches[1], current_commit,
                                last_test_pass_commit[branch], ok1, ok2, delivered)
    /\ last_commit' = [last_commit EXCEPT ![branch] = current_commit]
    /\ verdict' = "failed"
    /\ pc' = "for"
    /\ UNCHANGED <<body_frame, current_commit, last_test_pass_commit,
                   test_result>>

\* lines 246-249, 251
Failure ==
    /\ pc = "failure"
    /\ \E ok1 \in BOOLEAN, ok2 \in BOOLEAN, delivered \in BOOLEAN :
        sent' = on_test_failure(sent, branch, current_commit,
                                last_test_pass_commit[branch], ok1, ok2, delivered)
    /\ last_commit' = [last_commit EXCEPT ![branch] = current_commit]
    /\ verdict' = "failed"
    /\ pc' = "for"
    /\ UNCHANGED <<body_frame, current_commit, last_test_pass_commit,
                   test_result>>

Next ==
    \/ StartSelected
    \/ StartCurrent
    \/ StartFailed
    \/ ForBranch
    \/ ForDone
    \/ Sleep
    \/ CheckoutOk
    \/ CheckoutFailed
    \/ SyncOk
    \/ SyncFailed
    \/ Resolve
    \/ CheckUnchanged
    \/ Begin
    \/ RunTestsReturn
    \/ RunTestsNotFound
    \/ RunTestsCrash
    \/ Success
    \/ Failure

Spec == Init /\ [][Next]_vars

\* ------------------------------------------- the adapters on their own
\* The branch selector as the string given to --branch, and the three
\* answers of git rev-parse, drawn from bounded sets; Spec above starts from
\* the selector already split and draws the answers inside Resolve.

InitPure ==
    /\ args \in [branch : Selectors, sync_command : {FALSE}]
    /\ rev_parse \in [Candidates -> Revs \cup {None}]
    /\ pc = "args"
    /\ branches = << >>
    /\ idx = 0
    /\ branch = None
    /\ current_commit = None
    /\ last_commit = << >>
    /\ last_test_pass_commit = << >>
    /\ sent = << >>
    /\ test_result = NotRun
    /\ verdict = "none"
    /\ passed = {}
    /\ last_success = << >>

pure_frame == <<args, rev_parse, idx, branch, last_commit,
                last_test_pass_commit, sent, test_result, verdict, passed,
                last_success>>

\* lines 193-194
SplitBranches ==
    /\ pc = "args"
    /\ branches' = branch_list(args.branch)
    /\ pc' = "split"
    /\ UNCHANGED <<pure_frame, current_commit>>

\* lines 231, 64-84
ResolveRefs ==
    /\ pc = "split"
    /\ current_commit' = get_branch_commit_hash(rev_parse)
    /\ pc' = "resolved"
    /\ UNCHANGED <<pure_frame, branches>>

NextPure ==
    \/ SplitBranches
    \/ ResolveRefs

SpecPure == InitPure /\ [][NextPure]_vars

\* every blocking call returns: a step that can be taken is taken in the end
FairSpec == Spec /\ WF_vars(Next)

\* ------------------------------------------------------------------ claims

Titles(outbox) == [i \in 1..Len(outbox) |-> outbox[i].title]
Outcomes == {"Success", "Failure"}
Skips == {"checkout_failed", "sync_failed", "unresolved"}
Stopped == pc \in {"exited", "crashed"}
trackers == <<last_commit, last_test_pass_commit>>

\* C1: a pass of the loop body that resolves the revision the branch was last
\* seen at starts no test run, posts nothing and changes neither tracker; the
\* steps leading to the comparison (checkout, sync, resolve) change no
\* tracker either.
C1_UnchangedStep ==
    (pc = "check" /\ current_commit = last_commit[branch])
        => /\ pc' = "for"
           /\ verdict' = "unchanged"
           /\ sent' = << >>
           /\ test_result' = NotRun
           /\ UNCHANGED trackers
C1_Idempotent ==
    /\ [](verdict = "unchanged" =>
            /\ sent = << >>
            /\ test_result = NotRun
            /\ current_commit = last_commit[branch])
    /\ [][C1_UnchangedStep]_vars
    /\ [][(pc \in {"for", "checkout", "sync", "resolve", "check"})
            => (UNCHANGED trackers)]_vars
\* a branch seen at a revision whose tests failed is polled again at it
C1_Witness ==
    /\ verdict = "unchanged"
    /\ last_commit[branch] = current_commit
    /\ last_test_pass_commit[branch] # current_commit

\* C2 as stated: the first poll of a branch is never left with a Begin and
\* no Success or Failure.  Checked where nothing can follow any more: the
\* monitor has stopped inside the first poll of the branch.
C2_Original ==
    (Stopped /\ last_commit[branch] = None /\ Truthy(current_commit))
        => /\ Len(sent) = 2
           /\ sent[1].title = "Begin"
           /\ sent[2].title \in Outcomes
\* C2 amended: the first poll of a branch that resolves a revision posts a
\* Begin for it; when the test command returns an exit status the next post
\* is exactly one Success or Failure for the same branch; when the test
\* command cannot be started the monitor stops with the Begin alone.
C2_FirstStep ==
    (pc = "check" /\ last_commit[branch] = None)
        => /\ pc' = "run_tests"
           /\ Titles(sent') = <<"Begin">>
           /\ sent'[1].branch = branch
           /\ sent'[1].content.begin = current_commit
C2_OutcomeStep ==
    (pc \in {"success", "failure"})
        => /\ Len(sent') = 2
           /\ sent'[1] = sent[1]
           /\ sent'[2].branch = branch
           /\ sent'[2].title = (IF pc = "success" THEN "Success" ELSE "Failure")
C2_FirstPoll ==
    /\ [](pc \in {"run_tests", "success", "failure"} => Titles(sent) = <<"Begin">>)
    /\ [](pc \in {"success", "failure"} <=>
            (HasReturned(test_result) /\ Len(sent) = 1))
    /\ []((HasReturned(test_result) /\ pc \notin {"success", "failure"}) =>
            /\ pc = "for"
            /\ Titles(sent) \in {<<"Begin", "Success">>, <<"Begin", "Failure">>})
    /\ [](Stopped => (Titles(sent) = <<"Begin">> /\ ~HasReturned(test_result)))
    /\ [][C2_FirstStep]_vars
    /\ [][C2_OutcomeStep]_vars
\* the first poll of a branch has posted Begin and the tests have returned
C2_Witness ==
    /\ pc = "failure"
    /\ last_commit[branch] = None
    /\ Titles(sent) = <<"Begin">>
    /\ sent[1].branch = branch

\* C3: a failure on revision R of a branch whose last passing revision is P
\* posts the log of the range P..R (what get_commit_log returns for it, the
\* error text for P..R when git log fails), P being the revision of the
\* latest run that returned 0 on that branch; never the log of R alone.
C3_RangeSelection ==
    (verdict = "failed" /\ last_test_pass_commit[branch] # None)
        => LET c == sent[Len(sent)].content
           IN  /\ sent[Len(sent)].title = "Failure"
               /\ sent[Len(sent)].branch = branch
               /\ c.type \in {"range", "error"}
               /\ c.begin = last_test_pass_commit[branch]
               /\ c.begin = last_success[branch]
               /\ c.end = current_commit
\* P differs from the failing revision and from what another branch passed at
C3_Witness ==
    /\ verdict = "failed"
    /\ last_test_pass_commit[branch] \notin {None, current_commit}
    /\ sent[Len(sent)].content.type = "range"
    /\ \E b \in DOMAIN last_test_pass_commit :
        /\ b # branch
        /\ last_test_pass_commit[b] \notin {None, last_test_pass_commit[branch]}

\* C4: a failure on revision R of a branch on which no run has passed posts
\* the log of R alone (the error text for R when git log fails), not a range.
C4_SingleWhenNoPass ==
    (verdict = "failed" /\ last_test_pass_commit[branch] = None)
        => LET c == sent[Len(sent)].content
           IN  /\ sent[Len(sent)].title = "Failure"
               /\ sent[Len(sent)].branch = branch
               /\ c.type \in {"single", "error"}
               /\ c.begin = current_commit
               /\ c.end = NoEnd
C4_Witness ==
    /\ verdict = "failed"
    /\ last_test_pass_commit[branch] = None
    /\ sent[Len(sent)].content = get_commit_log(current_commit, NoEnd, TRUE)

\* C5: when a pass of the loop body has run the tests on R to completion,
\* passed or failed, the branch is recorded as last seen at R, so a poll that
\* resolves R again finds no new commit.
C5_SeenAfterRun ==
    (verdict \in {"passed", "failed"})
        => /\ HasReturned(test_result)
           /\ pc = "for"
           /\ last_commit[branch] = current_commit
           /\ ~NewCommit(branch)
C5_Witness ==
    /\ verdict = "failed"
    /\ ReturnCode(test_result) # 0
    /\ last_commit[branch] = current_commit

\* C6: last_test_pass_commit is written only by the step that follows a test
\* run returning 0; the step that handles a failure leaves it as it was.
C6_WriteStep ==
    (last_test_pass_commit' # last_test_pass_commit /\ pc # "start")
        => /\ pc = "success"
           /\ test_result = Returned(0)
           /\ verdict' = "passed"
C6_PassOnlyOnSuccess ==
    /\ [][C6_WriteStep]_vars
    /\ [][(pc = "failure") => (UNCHANGED last_test_pass_commit)]_vars
\* last_seen = bbb, last_pass = aaa
C6_Witness ==
    /\ verdict = "failed"
    /\ last_commit[branch] = current_commit
    /\ last_test_pass_commit[branch] \notin {None, current_commit}
    /\ last_test_pass_commit[branch] = last_success[branch]

\* C7: once set, a branch's last passing revision is never unset, and it is
\* replaced only by the revision resolved in the current pass of the loop
\* body, a pass that began after the old value was written and whose test run
\* returned 0.
C7_ReplaceStep ==
    \A b \in DOMAIN last_test_pass_commit :
        last_test_pass_commit[b] # None
            => /\ last_test_pass_commit'[b] # None
               /\ last_test_pass_commit'[b] # last_test_pass_commit[b]
                    => /\ b = branch
                       /\ pc = "success"
                       /\ verdict = "new_commit"
                       /\ test_result = Returned(0)
                       /\ last_test_pass_commit'[b] = current_commit
                       /\ sent[1].content.begin = current_commit
C7_Monotone ==
    /\ [][C7_ReplaceStep]_vars
    /\ [](pc = "success" => (verdict = "new_commit" /\ Truthy(current_commit)))
    /\ [][(pc = "for" /\ pc' = "checkout") => (current_commit' = None)]_vars
\* the branch passed at another revision before it passed at this one
C7_Witness ==
    /\ verdict = "passed"
    /\ last_test_pass_commit[branch] = current_commit
    /\ \E r \in Revs : r # current_commit /\ <<branch, r>> \in passed

\* C8: a set last passing revision of a branch is a revision at which a test
\* run on that branch returned 0.
C8_PassedBefore ==
    \A b \in DOMAIN last_test_pass_commit :
        last_test_pass_commit[b] # None
            => <<b, last_test_pass_commit[b]>> \in passed
\* the revision passed on b and was seen, and never passed, on b2
C8_Witness ==
    \E b, b2 \in DOMAIN last_test_pass_commit :
        /\ b # b2
        /\ last_test_pass_commit[b] # None
        /\ last_commit[b2] = last_test_pass_commit[b]
        /\ <<b2, last_test_pass_commit[b]>> \notin passed
        /\ last_test_pass_commit[b2] # None

\* C9: a pass of the loop body that ends at a failed checkout, a failed sync
\* or an unresolved branch has run no test and posted nothing, has changed no
\* tracker of any branch, and leaves the loop running: the for loop goes on,
\* and every later visit of the branch starts again at the checkout.
C9_SkipStep ==
    (pc \in {"checkout", "sync", "resolve"} /\ pc' = "for")
        => /\ verdict' \in Skips
           /\ sent' = << >>
           /\ test_result' = NotRun
           /\ UNCHANGED <<trackers, idx, branches, branch>>
C9_IterationLocal ==
    /\ [](verdict \in Skips =>
            (pc = "for" /\ sent = << >> /\ test_result = NotRun))
    /\ [][C9_SkipStep]_vars
    /\ [][(pc \in {"for", "checkout", "sync", "resolve"})
            => (UNCHANGED trackers)]_vars
    /\ [][(pc = "for" /\ idx < Len(branches)) =>
            (pc' = "checkout" /\ branch' = branches[idx + 1])]_vars
    /\ [][(pc = "checkout" /\ args.sync_command) => (pc' \in {"sync", "for"})]_vars
\* a sync fails on a branch that has been seen and has passed before
C9_Witness ==
    /\ verdict = "sync_failed"
    /\ last_commit[branch] # None
    /\ last_test_pass_commit[branch] # None

\* C10: when the test script is not found the monitor exits: only the Begin
\* of that run has been posted, no tracker is written by that step, and no
\* step follows.
C10_FatalNotFound ==
    /\ [](test_result = FileNotFoundError =>
            (pc = "exited" /\ Titles(sent) = <<"Begin">>))
    /\ [](pc = "exited" => test_result = FileNotFoundError)
    /\ [][(pc' = "exited") => (UNCHANGED trackers)]_vars
    /\ [][pc # "exited"]_vars
\* the monitor exits with branches of the iteration still to poll
C10_Witness ==
    /\ pc = "exited"
    /\ idx < Len(branches)
    /\ last_commit[branch] # current_commit
    /\ \E b \in DOMAIN last_commit : last_commit[b] # None

\* C11 as stated: a test run that ends in any way other than a missing
\* executable is not fatal, and its outcome is Success exactly when the exit
\* status is zero: the monitor is at the Success or Failure step or has
\* finished the pass of the loop body.
C11_OutcomeFromExitStatus ==
    (test_result # NotRun /\ test_result # FileNotFoundError)
        => /\ pc \in {"success", "failure", "for"}
           /\ (pc = "success" \/ verdict = "passed")
                <=> (HasReturned(test_result) /\ ReturnCode(test_result) = 0)

\* C13: when no selector is given and git cannot name the current branch the
\* monitor returns before the loop: no branch is tracked, nothing has been
\* checked out, run or posted, and no step follows.
C13_NoBranchFatal ==
    /\ [](verdict = "no_branch" =>
            /\ pc = "returned"
            /\ args.branch = NoBranch
            /\ branches = << >>
            /\ idx = 0
            /\ branch = None
            /\ current_commit = None
            /\ sent = << >>
            /\ test_result = NotRun)
    /\ [](pc = "returned" => verdict = "no_branch")
    /\ [][pc # "returned"]_vars
C13_Witness ==
    /\ pc = "returned"
    /\ verdict = "no_branch"
    /\ DOMAIN last_commit = {}

\* C14: every post is attempted once: a step that posts appends one event,
\* whatever its delivery, and the step's control flow and tracker updates are
\* those of the posting statement alone, the same for a delivered and for a
\* dropped event; a pass of the loop body posts Begin and one outcome at most.
C14_PostStep ==
    (sent' # sent /\ sent' # << >>)
        => /\ Len(sent') = Len(sent) + 1
           /\ SubSeq(sent', 1, Len(sent)) = sent
           /\ pc \in {"check", "success", "failure"}
           /\ pc' = (IF pc = "check" THEN "run_tests" ELSE "for")
           /\ last_commit' = (IF pc = "check" THEN last_commit
                              ELSE [last_commit EXCEPT ![branch] = current_commit])
           /\ last_test_pass_commit' =
                (IF pc = "success"
                 THEN [last_test_pass_commit EXCEPT ![branch] = current_commit]
                 ELSE last_test_pass_commit)
C14_FireAndForget ==
    /\ [][C14_PostStep]_vars
    /\ [](Titles(sent) \in {<< >>, <<"Begin">>, <<"Begin", "Success">>,
                            <<"Begin", "Failure">>})
    /\ []((pc = "for" /\ Len(sent) = 2) => last_commit[branch] = current_commit)
\* both posts of a passing run were dropped and the trackers are updated
C14_Witness ==
    /\ verdict = "passed"
    /\ Len(sent) = 2
    /\ ~sent[1].delivered
    /\ ~sent[2].delivered
    /\ last_commit[branch] = current_commit
    /\ last_test_pass_commit[branch] = current_commit

\* C15: every post of a pass of the loop body is about the branch and the
\* revision of that pass; from the Begin to the outcome the loop stays on
\* that branch and revision, with no checkout in between; an outcome comes
\* after a Begin and one test run that returned, and a pass runs the test
\* command once at most.
C15_About(e) ==
    /\ e.branch = branch
    /\ IF e.content.end = NoEnd
       THEN e.content.begin = current_commit
       ELSE e.content.end = current_commit
C15_Sequential ==
    /\ [](\A i \in 1..Len(sent) : C15_About(sent[i]))
    /\ [](pc \in {"run_tests", "success", "failure"} =>
            (Len(sent) = 1 /\ sent[1].title = "Begin"))
    /\ [](Len(sent) = 2 =>
            /\ sent[1].title = "Begin"
            /\ sent[2].title \in Outcomes
            /\ HasReturned(test_result))
    /\ [][(pc \in {"run_tests", "success", "failure"}) =>
            /\ branch' = branch
            /\ idx' = idx
            /\ current_commit' = current_commit
            /\ pc' \in {"success", "failure", "for", "exited", "crashed"}]_vars
    /\ [][(test_result' # test_result /\ test_result' # NotRun) =>
            (pc = "run_tests" /\ test_result = NotRun)]_vars
\* the second branch of the list has failed after its own Begin
C15_Witness ==
    /\ verdict = "failed"
    /\ Len(sent) = 2
    /\ idx = 2
    /\ branch # branches[1]
    /\ last_commit[branches[1]] # None

\* C18: a failing git log changes the excerpt only: the Begin is posted and
\* the test run started, the outcome is posted and the trackers written, in
\* every step alike; the excerpt is then the error text for the request made.
C18_LogFailureContained ==
    /\ [][(pc = "check" /\ NewCommit(branch)) =>
            (Len(sent') = 1 /\ pc' = "run_tests")]_vars
    /\ [][(pc = "success") =>
            /\ Len(sent') = 2
            /\ pc' = "for"
            /\ last_commit'[branch] = current_commit
            /\ last_test_pass_commit'[branch] = current_commit]_vars
    /\ [][(pc = "failure") =>
            /\ Len(sent') = 2
            /\ pc' = "for"
            /\ last_commit'[branch] = current_commit
            /\ UNCHANGED last_test_pass_commit]_vars
    /\ [](\A i \in 1..Len(sent) :
            sent[i].content.type = "error" =>
                \/ sent[i].content = get_commit_log(current_commit, NoEnd, FALSE)
                \/ /\ sent[i].title = "Failure"
                   /\ sent[i].content =
                        get_commit_log(last_test_pass_commit[branch],
                                       current_commit, FALSE))
\* both git logs of a passing run failed and the trackers are updated
C18_Witness ==
    /\ verdict = "passed"
    /\ Len(sent) = 2
    /\ sent[1].content.type = "error"
    /\ sent[2].content.type = "error"
    /\ last_commit[branch] = current_commit
    /\ last_test_pass_commit[branch] = current_commit

\* C19 as stated: a Failure that reports a range reports it from a revision
\* other than the failing one.
C19_NonDegenerateRange ==
    (verdict = "failed" /\ sent[Len(sent)].content.end # NoEnd)
        => sent[Len(sent)].content.begin # sent[Len(sent)].content.end

\* C20: a step writes no tracker of a branch other than the one of the
\* current pass; a test run is started only for a revision other than the
\* branch's own last seen one; a Failure ranges from a revision that passed
\* on this branch and reports a single commit only when none passed on it.
C20_IsolationStep ==
    (pc # "start")
        => \A b \in DOMAIN last_commit :
              b # branch => /\ last_commit'[b] = last_commit[b]
                            /\ last_test_pass_commit'[b] = last_test_pass_commit[b]
C20_Isolation ==
    /\ [][C20_IsolationStep]_vars
    /\ [](pc \in {"run_tests", "success", "failure"} =>
            current_commit # last_commit[branch])
    /\ [](verdict = "unchanged" => current_commit = last_commit[branch])
    /\ [](verdict = "failed" =>
            IF sent[2].content.end = NoEnd
            THEN \A r \in Revs : <<branch, r>> \notin passed
            ELSE <<branch, sent[2].content.begin>> \in passed)
\* another branch has seen and passed the revision that fails here
C20_Witness ==
    /\ verdict = "failed"
    /\ sent[2].content.end = NoEnd
    /\ \E b \in DOMAIN last_commit :
        /\ b # branch
        /\ last_commit[b] = current_commit
        /\ last_test_pass_commit[b] = current_commit

\* C16: an iteration takes the entries of the branch list one by one in list
\* order, a skipped entry included, and sleeps once, after the last entry,
\* before the next iteration starts at the first entry; and, every blocking
\* call returning, each monitored branch is checked out again and again
\* unless the monitor has stopped on a test command that could not be started.
C16_Live(b) ==
    []<>(\/ Stopped
         \/ pc = "returned"
         \/ b \notin Range(branches) /\ pc # "start"
         \/ pc = "checkout" /\ branch = b)
C16_LoopForever ==
    /\ [][(pc' = "checkout") =>
            (pc = "for" /\ idx' = idx + 1 /\ branch' = branches[idx'])]_vars
    /\ [][(idx' # idx) =>
            \/ (pc = "for" /\ pc' = "checkout" /\ idx' = idx + 1)
            \/ (pc = "sleep" /\ pc' = "for" /\ idx' = 0)]_vars
    /\ [][(pc' = "sleep") => (pc = "for" /\ idx = Len(branches))]_vars
    /\ [][(pc = "sleep") => (pc' = "for" /\ idx' = 0)]_vars
    /\ [][(pc \in {"checkout", "sync", "resolve", "check", "success", "failure"}
            /\ pc' \notin {"sync", "resolve", "check", "run_tests"})
            => (pc' = "for" /\ idx' = idx)]_vars
    /\ [](pc \in {"checkout", "sync", "resolve", "check", "run_tests",
                  "success", "failure"} =>
            (idx \in 1..Len(branches) /\ branch = branches[idx]))
    /\ \A b \in BranchNames : C16_Live(b)
\* the first entry was skipped and the second one is being polled
C16_Witness ==
    /\ pc = "checkout"
    /\ idx = 2
    /\ branch # branches[1]
    /\ last_commit[branches[1]] = None
    /\ last_commit[branch] # None

\* C12 as stated: the branch list made from a comma-separated selector has
\* its entries trimmed, none empty, and no name twice.
C12_UniqueBranches ==
    (pc # "args")
        => /\ \A i \in 1..Len(branches) :
                /\ branches[i] # << >>
                /\ branches[i][1] \notin Whitespace
                /\ branches[i][Len(branches[i])] \notin Whitespace
                /\ \A k \in 1..Len(branches[i]) : branches[i][k] # ","
           /\ \A i, j \in 1..Len(branches) : i # j => branches[i] # branches[j]

\* C17: the revision resolved is the answer for the first candidate, in the
\* order local ref, remote-tracking ref, bare name, that git resolves; it is
\* None only when git resolves none of the three.
C17_Resolving == {i \in Candidates : rev_parse[i] # None}
C17_FirstCandidate ==
    (pc = "resolved")
        => IF C17_Resolving = {}
           THEN current_commit = None
           ELSE \E i \in C17_Resolving :
                    /\ \A j \in C17_Resolving : i <= j
                    /\ current_commit = rev_parse[i]
\* the local ref does not resolve, the other two resolve to different revisions
C17_Witness ==
    /\ pc = "resolved"
    /\ rev_parse[1] = None
    /\ rev_parse[2] # None
    /\ rev_parse[3] \notin {None, rev_parse[2]}
    /\ current_commit = rev_parse[2]

====
